---- MODULE Spec2Model ----
(***************************************************************************)
(* Model of the CSV ingestion pipeline of my-backend:                      *)
(*   services/csvService.js  (src/unnamed/part_004)   parseCSV,            *)
(*       mapCSVToDatabase, parsePrice, calculateScore, saveToDatabase,     *)
(*       processCSV, checkDomainAvailability, calculateEnhancedScore,      *)
(*       calculateEstimatedValue                                           *)
(*   services/godaddyService.js   checkAvailability,                       *)
(*       checkDomainAvailability, batchCheckAvailability, chunkArray       *)
(*                                                                         *)
(* Text is modelled as sequences of one-character strings, so that trim,   *)
(* toLowerCase, endsWith, split and includes are computed, not assumed.    *)
(* Numbers that JavaScript keeps as doubles are modelled as exact decimal  *)
(* fractions [n, d] with d a power of ten.                                 *)
(***************************************************************************)
EXTENDS Integers, Sequences, FiniteSets, TLC

(***************************************************************************)
(* Text helpers (String.prototype methods used by the services)            *)
(***************************************************************************)

\* The value of a CSV column that is absent from the row (csvRow.x === undefined).
Undefined == <<"undefined">>

UpperChars == <<"A","B","C","D","E","F","G","H","I","J","K","L","M",
                "N","O","P","Q","R","S","T","U","V","W","X","Y","Z">>
LowerChars == <<"a","b","c","d","e","f","g","h","i","j","k","l","m",
                "n","o","p","q","r","s","t","u","v","w","x","y","z">>
Digits == <<"0","1","2","3","4","5","6","7","8","9">>

InSeq(c, s) == \E i \in 1..Len(s) : s[i] = c

LowerChar(c) ==
  IF InSeq(c, UpperChars)
    THEN LowerChars[CHOOSE i \in 1..Len(UpperChars) : UpperChars[i] = c]
    ELSE c

toLowerCase(s) == [i \in 1..Len(s) |-> LowerChar(s[i])]

IsSpace(c) == c \in {" ", "\t"}

IsDigit(c) == InSeq(c, Digits)

DigitVal(c) == (CHOOSE i \in 1..Len(Digits) : Digits[i] = c) - 1

RECURSIVE TrimLeft(_)
TrimLeft(s) ==
  IF s # <<>> /\ IsSpace(Head(s)) THEN TrimLeft(Tail(s)) ELSE s

RECURSIVE TrimRight(_)
TrimRight(s) ==
  IF s # <<>> /\ IsSpace(s[Len(s)]) THEN TrimRight(SubSeq(s, 1, Len(s) - 1)) ELSE s

trim(s) == TrimRight(TrimLeft(s))

endsWith(s, suffix) ==
  /\ Len(s) >= Len(suffix)
  /\ SubSeq(s, Len(s) - Len(suffix) + 1, Len(s)) = suffix

startsAt(s, i, sub) ==
  /\ i + Len(sub) - 1 <= Len(s)
  /\ SubSeq(s, i, i + Len(sub) - 1) = sub

includes(s, sub) == \E i \in 1..(Len(s) + 1) : startsAt(s, i, sub)

\* indexOf for a single character: 0 when absent (1-based positions).
indexOf(s, c) ==
  IF InSeq(c, s) THEN CHOOSE i \in 1..Len(s) : s[i] = c /\ \A k \in 1..(i-1) : s[k] # c
  ELSE 0

\* domain.split('.')[0]
splitFirst(s) ==
  IF indexOf(s, ".") = 0 THEN s ELSE SubSeq(s, 1, indexOf(s, ".") - 1)

\* domain.split('.').pop()
splitLast(s) ==
  IF indexOf(s, ".") = 0 THEN s
  ELSE LET last == CHOOSE i \in 1..Len(s) : s[i] = "." /\ \A k \in (i+1)..Len(s) : s[k] # "."
       IN SubSeq(s, last + 1, Len(s))

RemoveAll(s, C) == SelectSeq(s, LAMBDA c : c \notin C)

(***************************************************************************)
(* Numbers: exact decimal fractions.  NoNumber stands for null.            *)
(***************************************************************************)

NoNumber == [n |-> 0, d |-> 0]

RECURSIVE Norm(_)
Norm(x) ==
  IF x.d > 1 /\ x.n % 10 = 0 THEN Norm([n |-> x.n \div 10, d |-> x.d \div 10]) ELSE x

Num(k) == [n |-> k, d |-> 1]

\* JavaScript truthiness of a number-or-null: null and 0 are falsy.
Truthy(x) == x # NoNumber /\ x.n # 0

\* x > k for a number x (never null here) and an integer k.
Greater(x, k) == x.n > k * x.d

(***************************************************************************)
(* Words the services compare text against                                 *)
(***************************************************************************)

sCom == <<"c","o","m">>
sDotCom == <<".","c","o","m">>
sAvailable == <<"A","v","a","i","l","a","b","l","e">>
sAvailableSoon == <<"A","v","a","i","l","a","b","l","e"," ","S","o","o","n">>
sTaken == <<"T","a","k","e","n">>
sUnknown == <<"U","n","k","n","o","w","n">>
sPremium == <<"P","r","e","m","i","u","m">>
sLowPremium == <<"p","r","e","m","i","u","m">>
sLowAvailable == <<"a","v","a","i","l","a","b","l","e">>
sLowSoon == <<"s","o","o","n">>

premiumKeywords ==
  { <<"t","e","c","h">>,
    <<"d","i","g","i","t","a","l">>,
    <<"w","e","b">>,
    <<"a","p","p">>,
    <<"s","m","a","r","t">>,
    <<"c","l","o","u","d">>,
    <<"d","a","t","a">>,
    <<"a","i">>,
    <<"c","y","b","e","r">>,
    <<"f","u","t","u","r","e">>,
    <<"g","l","o","b","a","l">>,
    <<"w","o","r","l","d">>,
    <<"h","u","b">>,
    <<"p","r","o">>,
    <<"l","a","b">>,
    <<"s","t","u","d","i","o">>,
    <<"a","g","e","n","c","y">>,
    <<"s","o","l","u","t","i","o","n","s">>,
    <<"s","y","s","t","e","m","s">>,
    <<"w","o","r","k","s">>,
    <<"g","r","o","u","p">> }

techKeywords ==
  { <<"t","e","c","h">>,
    <<"d","i","g","i","t","a","l">>,
    <<"w","e","b">>,
    <<"a","p","p">>,
    <<"s","m","a","r","t">>,
    <<"c","l","o","u","d">>,
    <<"d","a","t","a">>,
    <<"a","i">>,
    <<"c","y","b","e","r">> }

startupKeywords ==
  { <<"s","t","a","r","t","u","p">>,
    <<"h","u","b">>,
    <<"p","r","o">>,
    <<"l","a","b">>,
    <<"s","t","u","d","i","o">>,
    <<"a","g","e","n","c","y">> }

trendingKeywords ==
  { <<"a","i">>,
    <<"m","l">>,
    <<"b","l","o","c","k","c","h","a","i","n">>,
    <<"c","r","y","p","t","o">>,
    <<"n","f","t">>,
    <<"m","e","t","a","v","e","r","s","e">>,
    <<"w","e","b","3">> }

(***************************************************************************)
(* parsePrice (part_004:142-185)                                           *)
(***************************************************************************)

NaN == [n |-> 0, d |-> -1]

RECURSIVE DigitPrefix(_)
DigitPrefix(s) ==
  IF s # <<>> /\ IsDigit(Head(s)) THEN <<Head(s)>> \o DigitPrefix(Tail(s)) ELSE <<>>

RECURSIVE DigitsValue(_)
DigitsValue(s) ==
  IF s = <<>> THEN 0 ELSE 10 * DigitsValue(SubSeq(s, 1, Len(s) - 1)) + DigitVal(s[Len(s)])

RECURSIVE Pow10(_)
Pow10(k) == IF k = 0 THEN 1 ELSE 10 * Pow10(k - 1)

\* Number parsing as parseFloat does it: optional sign, digits, optional
\* fraction; the longest such prefix counts and the rest is ignored.  The text
\* the model feeds it holds no exponent and no "Infinity".
parseFloat(s) ==
  LET neg == s # <<>> /\ Head(s) = "-"
      rest == IF s # <<>> /\ Head(s) \in {"-", "+"} THEN Tail(s) ELSE s
      int == DigitPrefix(rest)
      after == SubSeq(rest, Len(int) + 1, Len(rest))
      frac == IF after # <<>> /\ Head(after) = "." THEN DigitPrefix(Tail(after)) ELSE <<>>
      mag == DigitsValue(int) * Pow10(Len(frac)) + DigitsValue(frac)
  IN IF Len(int) + Len(frac) = 0 THEN NaN
     ELSE Norm([n |-> IF neg THEN 0 - mag ELSE mag, d |-> Pow10(Len(frac))])

\* cleanPrice.replace(',', '.'): the first comma only.
ReplaceFirstComma(s) ==
  LET i == indexOf(s, ",")
  IN IF i = 0 THEN s ELSE SubSeq(s, 1, i - 1) \o <<".">> \o SubSeq(s, i + 1, Len(s))

\* The string cleanPrice that parsePrice hands to parseFloat (part_004:147-168).
cleanPrice(priceStr) ==
  LET trimmed == trim(priceStr)
      \* replace(/[$,£€¥]/g, ''): the character class holds the comma
      noSymbols == RemoveAll(trimmed, {"$", ",", "£", "€", "¥"})
      commaIndex == indexOf(noSymbols, ",")
      afterComma == SubSeq(noSymbols, commaIndex + 1, Len(noSymbols))
      commas == IF ~InSeq(",", noSymbols) THEN noSymbols
                ELSE IF Len(afterComma) <= 2 THEN ReplaceFirstComma(noSymbols)
                ELSE RemoveAll(noSymbols, {","})
  IN RemoveAll(commas, {" ", "\t"})

\* parsePrice without the isNaN test.
parsePriceNoNaNCheck(priceStr) ==
  IF priceStr = Undefined \/ priceStr = <<>> THEN NoNumber
  ELSE parseFloat(cleanPrice(priceStr))

parsePrice(priceStr) ==
  IF priceStr = Undefined \/ priceStr = <<>> THEN NoNumber
  ELSE LET price == parseFloat(cleanPrice(priceStr))
       IN IF price = NaN THEN NoNumber ELSE price

(***************************************************************************)
(* parseDate (part_004:211-223).  Dates are opaque tokens: the text of the *)
(* CSV cell on the way in, the ISO text of toISOString() on the way out    *)
(* (process time zone UTC).                                                *)
(***************************************************************************)

NoDate == "null"

parseDate(dateStr) ==
  CASE dateStr = "undefined" -> NoDate
    [] dateStr = "" -> NoDate
    [] dateStr = "08/23/2025 01:00" -> "2025-08-23T01:00:00.000Z"
    [] dateStr = "08/22/2025 22:00" -> "2025-08-22T22:00:00.000Z"
    [] OTHER -> NoDate

(***************************************************************************)
(* Scoring (part_004:226-323, 548-605).  Scores are kept in tenths until   *)
(* the final Math.round, because tldScore / 10 can be a half.              *)
(***************************************************************************)

Min(a, b) == IF a < b THEN a ELSE b
Max(a, b) == IF a > b THEN a ELSE b

Vowels == {"a", "e", "i", "o", "u"}
Consonants == {"b","c","d","f","g","h","j","k","l","m","n","p","q","r","s","t","v","w","x","y","z"}

IsVowel(c) == LowerChar(c) \in Vowels
IsConsonant(c) == LowerChar(c) \in Consonants

\* s has a run of k consecutive characters satisfying P starting at i.
RunAt(s, i, k, P(_)) == i + k - 1 <= Len(s) /\ \A m \in i..(i + k - 1) : P(s[m])

HasRun(s, k, P(_)) == \E i \in 1..Len(s) : RunAt(s, i, k, P)

calculateBrandability(name) ==
  LET a == IF RunAt(name, 1, 2, IsVowel) THEN 10 ELSE 0
      b == IF HasRun(name, 3, IsVowel) THEN 5 ELSE 0
      c == IF RunAt(name, 1, 2, IsConsonant) THEN 8 ELSE 0
      d == IF HasRun(name, 4, IsConsonant) THEN 0 - 5 ELSE 0
      e == IF \E i \in 1..Len(name) :
                i + 2 <= Len(name) /\ name[i] # "\n"
                /\ name[i + 1] = name[i] /\ name[i + 2] = name[i]
            THEN 0 - 10 ELSE 0
      f == IF \E i \in 1..Len(name) : IsDigit(name[i]) THEN 0 - 5 ELSE 0
      g == IF InSeq("-", name) THEN 0 - 8 ELSE 0
  IN Max(0 - 20, Min(20, a + b + c + d + e + f + g))

calculateMarketDemand(name, tld) ==
  LET a == IF /\ tld \in {<<"t","e","c","h">>, <<"a","i">>, <<"d","e","v">>, <<"a","p","p">>}
              /\ \E k \in techKeywords : includes(name, k)
            THEN 20 ELSE 0
      b == IF /\ tld \in {<<"i","o">>, <<"c","o">>}
              /\ \E k \in startupKeywords : includes(name, k)
            THEN 15 ELSE 0
      c == IF \E k \in trendingKeywords : includes(name, k) THEN 25 ELSE 0
  IN Min(30, a + b + c)

\* Names that every object literal inherits from Object.prototype (these
\* among others): tldScores[name] and tldBaseValues[name] are functions, which
\* are truthy, and arithmetic on them gives NaN.
ObjectPrototypeKeys ==
  { <<"c","o","n","s","t","r","u","c","t","o","r">>,
    <<"t","o","S","t","r","i","n","g">>,
    <<"v","a","l","u","e","O","f">> }

\* NaN as the result of a scorer or of the estimate, whose numbers are
\* integers >= 0.
NotANumber == -1

tldScores(tld) ==
  CASE tld \in ObjectPrototypeKeys -> NotANumber
    [] tld = <<"c","o","m">> -> 100
    [] tld = <<"n","e","t">> -> 80
    [] tld = <<"o","r","g">> -> 75
    [] tld = <<"i","o">> -> 85
    [] tld = <<"c","o">> -> 70
    [] tld = <<"t","e","c","h">> -> 65
    [] tld = <<"a","p","p">> -> 70
    [] tld = <<"d","e","v">> -> 60
    [] tld = <<"a","i">> -> 90
    [] tld = <<"c","l","o","u","d">> -> 75
    [] OTHER -> 50

LengthScore(length) ==
  IF length <= 3 THEN 40
  ELSE IF length <= 5 THEN 30
  ELSE IF length <= 7 THEN 20
  ELSE IF length <= 10 THEN 10
  ELSE 5

StatusScore(status) ==
  IF status # <<>> /\ includes(toLowerCase(status), sLowPremium) THEN 20
  ELSE IF status # <<>> /\ includes(toLowerCase(status), sLowAvailable) THEN 15
  ELSE IF status # <<>> /\ includes(toLowerCase(status), sLowSoon) THEN 10
  ELSE 0

\* The part both scorers share, in tenths: length, TLD, keywords,
\* brandability, market demand.
SharedScore10(domain, length) ==
  LET tld == splitLast(domain)
      domainName == splitFirst(domain)
      keywordScore == Cardinality({k \in premiumKeywords : includes(domainName, k)}) * 15
  IN 10 * LengthScore(length) + tldScores(tld) + 10 * keywordScore
       + 10 * calculateBrandability(domainName)
       + 10 * calculateMarketDemand(domainName, tld)

\* Math.round(Math.min(100, Math.max(10, baseScore))) on tenths.
ClampRound10(s10) == (Min(1000, Max(100, s10)) + 5) \div 10

calculateScore(domain, price, length, status) ==
  LET priceScore == IF Truthy(price) /\ Greater(price, 1000) THEN 20
                    ELSE IF Truthy(price) /\ Greater(price, 500) THEN 15
                    ELSE IF Truthy(price) /\ Greater(price, 100) THEN 10
                    ELSE 0
  IN IF tldScores(splitLast(domain)) = NotANumber THEN NotANumber
     ELSE ClampRound10(SharedScore10(domain, length) + 10 * priceScore
                         + 10 * StatusScore(status))

\* The null both checkDomainAvailability wrappers return for a failed lookup.
NoAvailability == [failed |-> TRUE]

\* The basic score in place of the enhanced one: no ladder, no bonus.
calculateEnhancedScoreWithoutBonus(domain, price, length, status, availability) ==
  calculateScore(domain, price, length, status)

calculateEnhancedScore(domain, price, length, status, availability) ==
  LET priceScore == IF Truthy(price) /\ Greater(price, 1000) THEN 25
                    ELSE IF Truthy(price) /\ Greater(price, 500) THEN 20
                    ELSE IF Truthy(price) /\ Greater(price, 100) THEN 15
                    ELSE IF Truthy(price) /\ Greater(price, 50) THEN 10
                    ELSE 0
      availScore == IF availability # NoAvailability /\ availability.available
                      THEN 15 + (IF availability.status = sAvailable THEN 10
                                 ELSE IF availability.status = sAvailableSoon THEN 5
                                 ELSE 0)
                      ELSE 0
  IN IF tldScores(splitLast(domain)) = NotANumber THEN NotANumber
     ELSE ClampRound10(SharedScore10(domain, length) + 10 * priceScore + 10 * availScore
                         + 10 * StatusScore(status))

(***************************************************************************)
(* calculateEstimatedValue (part_004:608-635)                              *)
(***************************************************************************)

tldBaseValues(tld) ==
  CASE tld \in ObjectPrototypeKeys -> NotANumber
    [] tld = <<"c","o","m">> -> 1000
    [] tld = <<"n","e","t">> -> 800
    [] tld = <<"o","r","g">> -> 750
    [] tld = <<"i","o">> -> 1200
    [] tld = <<"c","o">> -> 900
    [] tld = <<"t","e","c","h">> -> 600
    [] tld = <<"a","p","p">> -> 700
    [] tld = <<"d","e","v">> -> 500
    [] tld = <<"a","i">> -> 1500
    [] tld = <<"c","l","o","u","d">> -> 800
    [] OTHER -> 500

\* lengthMultiplier times ten.
LengthMultiplier10(length) ==
  IF length <= 3 THEN 30
  ELSE IF length <= 5 THEN 20
  ELSE IF length <= 7 THEN 15
  ELSE IF length <= 10 THEN 12
  ELSE 10

\* Math.round(num / den / g) * g for num, den, g > 0.
RoundTo(num, den, g) == ((2 * num + den * g) \div (2 * den * g)) * g

\* estimatedValue = baseValue * (score / 50) * lengthMultiplier is the exact
\* fraction num / 500.
calculateEstimatedValue(domain, score, length, extension) ==
  LET tld == IF extension # <<>> THEN extension ELSE splitLast(domain)
      num == tldBaseValues(tld) * score * LengthMultiplier10(length)
  IN IF tldBaseValues(tld) = NotANumber \/ score = NotANumber THEN NotANumber
     ELSE IF num < 100 * 500 THEN RoundTo(num, 500, 10)
     ELSE IF num < 1000 * 500 THEN RoundTo(num, 500, 50)
     ELSE IF num < 10000 * 500 THEN RoundTo(num, 500, 100)
     ELSE RoundTo(num, 500, 1000)

(***************************************************************************)
(* mapCSVToDatabase (part_004:89-139)                                      *)
(***************************************************************************)

\* The null that mapCSVToDatabase returns for a dropped row.
NoCandidate == [dropped |-> TRUE]

\* value?.trim() || fallback
TrimOr(cell, fallback) ==
  IF cell = Undefined \/ trim(cell) = <<>> THEN fallback ELSE trim(cell)

\* parseInt(cell) || fallback: leading white space, optional sign, digits.
ParseIntOr(cell, fallback) ==
  LET s == IF cell = Undefined THEN <<>> ELSE TrimLeft(cell)
      neg == s # <<>> /\ Head(s) = "-"
      rest == IF s # <<>> /\ Head(s) \in {"-", "+"} THEN Tail(s) ELSE s
      ds == DigitPrefix(rest)
      v == IF neg THEN 0 - DigitsValue(ds) ELSE DigitsValue(ds)
  IN IF ds = <<>> \/ v = 0 THEN fallback ELSE v

\* A mapper without the check of the top-level domain.
CandidateDomainAnyTld(csvRow) == TrimOr(csvRow.domain, <<>>)

\* The domain of the candidate a row maps to, <<>> for a row that is dropped
\* (part_004:95-102).
CandidateDomain(csvRow) ==
  LET domain == TrimOr(csvRow.domain, <<>>)
  IN IF domain # <<>> /\ endsWith(toLowerCase(domain), sDotCom) THEN domain ELSE <<>>

mapCSVToDatabase(csvRow) ==
  LET domain == CandidateDomain(csvRow)
      price == parsePrice(csvRow.price)
      extension == TrimOr(csvRow.extension, <<>>)
      tld == TrimOr(csvRow.tld, extension)
      length == ParseIntOr(csvRow.length, Len(domain))
      status == TrimOr(csvRow.status, sAvailable)
  IN IF domain = <<>> THEN NoCandidate
     ELSE [ domain |-> domain,
            price |-> price,
            extension |-> extension,
            status |-> status,
            score |-> calculateScore(domain, price, length, status),
            drop_time |-> parseDate(csvRow.drop_time),
            crawl_time |-> parseDate(csvRow.crawl_time),
            tld |-> tld,
            length |-> length ]

(***************************************************************************)
(* Bounds and inputs                                                       *)
(***************************************************************************)

\* parseCSV's MAX_DOMAINS (20 in part_004:11) and SAMPLE_SIZE (200 in
\* part_004:12), scaled down so that every order the shuffle can produce is
\* explored; every definition below refers to them by name only.
MAX_DOMAINS == 2
SAMPLE_SIZE == 3

\* Longest CSV fed to a run, in rows (one more than the sample window).
MaxRows == 4

\* Uploads of the same CSV content that are processed one after the other.
MaxRuns == 2

rowAb ==
  [ domain |-> <<"a","b",".","c","o","m">>, price |-> <<"7","9">>,
    drop_time |-> "08/23/2025 01:00", crawl_time |-> "08/22/2025 22:00",
    extension |-> <<".","c","o","m">>, tld |-> <<".","c","o","m">>,
    length |-> <<"6">>, status |-> sAvailableSoon ]

\* Upper case, no status column, a price with a thousands comma.
rowWeb ==
  [ domain |-> <<"W","e","b",".","C","O","M">>, price |-> <<"1",",","2","3","4">>,
    drop_time |-> "08/23/2025 01:00", crawl_time |-> "undefined",
    extension |-> Undefined, tld |-> Undefined,
    length |-> <<"x">>, status |-> Undefined ]

\* A rejected top-level domain.
rowNet ==
  [ domain |-> <<"x",".","n","e","t">>, price |-> <<"5">>,
    drop_time |-> "08/23/2025 01:00", crawl_time |-> "08/22/2025 22:00",
    extension |-> <<".","n","e","t">>, tld |-> <<".","n","e","t">>,
    length |-> <<"5">>, status |-> sAvailable ]

\* A row whose domain cell is blank.
rowBlank ==
  [ domain |-> <<" ">>, price |-> Undefined,
    drop_time |-> "undefined", crawl_time |-> "undefined",
    extension |-> Undefined, tld |-> Undefined,
    length |-> Undefined, status |-> Undefined ]

CsvRows == {rowAb, rowWeb, rowNet, rowBlank}

SeqsUpTo(S, n) == UNION {[1..k -> S] : k \in 0..n}

CsvFiles == SeqsUpTo(CsvRows, MaxRows)

\* What the registrar API answers for one domain: data.available and
\* data.price (in cents; 0 stands for an absent or zero price).
ApiResponses ==
  { [available |-> TRUE, price |-> 1299],
    [available |-> FALSE, price |-> 0] }

\* No stub is configured: every lookup goes to the API.
NoStub == [stub |-> FALSE]

\* A row that is in the store before the first upload.
oldRowAb ==
  [ domain |-> <<"a","b",".","c","o","m">>, price |-> Num(50),
    extension |-> <<>>, status |-> sTaken, score |-> 10,
    drop_time |-> NoDate, crawl_time |-> NoDate, tld |-> <<>>, length |-> 6,
    available |-> FALSE, estimation_price |-> 0 ]

InitialStores == { {}, {oldRowAb} }

(***************************************************************************)
(* State                                                                   *)
(***************************************************************************)

VARIABLES
  csv,          \* rows of the uploaded file, in file order
  csvKind,      \* "ok", "parseError" (the csv parser emits 'error'),
                \* "readError" (the file read stream emits 'error')
  fileExists,   \* fs.existsSync(filePath)
  store,        \* rows of table suggested_domains
  store0,       \* the table before the first upload
  runNo,        \* which upload is being processed
  pc,           \* where processCSV is: "Sampling", "AwaitLookup", "AwaitFind",
                \* "AwaitUpdate", "AwaitInsert", "AwaitDelay", "Done" (summary
                \* returned), "Failed" (error thrown), "Crashed" (process exit)
  streamPos,    \* rows the parser has emitted as 'data'
  rowCount,     \* parseCSV: rowCount
  shouldStop,   \* parseCSV: shouldStop
  allResults,   \* parseCSV: allResults
  parsedData,   \* the candidates parseCSV resolved with (saveToDatabase mutates them)
  idx,          \* saveToDatabase: position of `data` in parsedData (0 before the loop)
  checked, inserted, updated, errors,   \* saveToDatabase: counters
  result,       \* what processCSV returned
  settled,      \* candidates whose availability lookup has settled in this run
  failed,       \* those of them whose lookup failed
  lookupStub,   \* the answer of a stub lookup service to every domain, or NoStub
  storeReliable,\* no call to the store fails
  unlinkReliable,\* no fs.unlinkSync(filePath) throws
  unlinks,      \* calls of fs.unlinkSync(filePath) in this run
  summaries,    \* the summaries returned by the runs so far
  \* GoDaddyService.batchCheckAvailability (a call of its own, routes/domains.js:151)
  batchPc,      \* "Idle", "Called", "AwaitChunk", "AwaitDelay", "Returned"
  domains,      \* the argument `domains`
  concurrency,  \* the argument `concurrency`
  chunks,       \* chunkArray(domains, concurrency)
  chunkNo,      \* position of `chunk` in chunks (0 before the loop)
  lookups,      \* per position of `domains`: not started, in flight, or the API's answer
  results,      \* the array `results`
  delays,       \* calls of this.delay(1000) so far
  call,         \* a direct call of one of the service's functions: name and arguments
  ret,          \* what that call returned
  \* processCSV calls that run at the same time (routes/admin.js:73), each at
  \* the upsert of one candidate
  runs,         \* per run: where it is, its candidate `data`, its counters
  writeLog      \* the inserts and updates the store has answered, in that order

runVars == <<pc, streamPos, rowCount, shouldStop, allResults, parsedData, idx,
             checked, inserted, updated, errors, result, settled, failed>>

envVars == <<csv, csvKind, fileExists, store, store0, runNo, lookupStub,
             storeReliable, unlinkReliable, unlinks, summaries>>

batchVars == <<batchPc, domains, concurrency, chunks, chunkNo, lookups, results, delays>>

calcVars == <<call, ret>>

raceVars == <<runs, writeLog>>

vars == <<csv, csvKind, fileExists, store, store0, runNo, pc, streamPos, rowCount,
          shouldStop, allResults, parsedData, idx, checked, inserted, updated,
          errors, result, settled, failed, lookupStub, storeReliable,
          unlinkReliable, unlinks, summaries,
          batchPc, domains, concurrency, chunks, chunkNo, lookups, results, delays,
          call, ret, runs, writeLog>>

NoResult == [checked |-> -1]

\* processCSV has been called: parseCSV has opened the stream.
RunStart ==
  /\ pc = "Sampling"
  /\ streamPos = 0
  /\ rowCount = 0
  /\ shouldStop = FALSE
  /\ allResults = <<>>
  /\ parsedData = <<>>
  /\ idx = 0
  /\ checked = 0 /\ inserted = 0 /\ updated = 0 /\ errors = 0
  /\ result = NoResult
  /\ settled = {}
  /\ failed = {}
  /\ unlinks = 0

NoCall == [fn |-> "none"]
NotReturned == [returned |-> FALSE]

\* No function of the service is called directly.
CalcIdle ==
  /\ call = NoCall
  /\ ret = NotReturned

\* No concurrent runs are under way.
RaceIdle ==
  /\ runs = <<>>
  /\ writeLog = <<>>

\* No call of batchCheckAvailability is under way.
BatchIdle ==
  /\ batchPc = "Idle"
  /\ domains = <<>>
  /\ concurrency = 3
  /\ chunks = <<>>
  /\ chunkNo = 0
  /\ lookups = <<>>
  /\ results = <<>>
  /\ delays = 0

Init ==
  /\ BatchIdle
  /\ CalcIdle
  /\ RaceIdle
  /\ csv \in CsvFiles
  /\ csvKind \in {"ok", "parseError", "readError"}
  /\ fileExists \in BOOLEAN
  \* a file that is not there cannot be read
  /\ (~fileExists => csvKind = "readError")
  /\ store0 \in InitialStores
  /\ store = store0
  /\ runNo = 1
  /\ lookupStub = NoStub
  /\ storeReliable = FALSE
  /\ unlinkReliable = FALSE
  /\ summaries = <<>>
  /\ RunStart

(***************************************************************************)
(* parseCSV (part_004:7-86)                                                *)
(***************************************************************************)

\* A swap that loses shuffled[i]: the assignment without the destructuring.
SwapOverwrite(s, i, j) == [s EXCEPT ![i] = s[j]]

\* [shuffled[i], shuffled[j]] = [shuffled[j], shuffled[i]] (part_004:54)
Swap(s, i, j) == [s EXCEPT ![i] = s[j], ![j] = s[i]]

\* Every array the Fisher-Yates loop (part_004:52-55) can leave behind when
\* it has still to handle positions i, i-1, .., 2 (1-based), one for each
\* value Math.random() can select.
RECURSIVE FisherYates(_, _)
FisherYates(s, i) ==
  IF i < 2 THEN {s}
  ELSE UNION { FisherYates(Swap(s, i, j), i - 1) : j \in 1..i }

\* selectedResults of the 'end' handler (part_004:46-57).
SelectedResults(all) ==
  IF Len(all) > MAX_DOMAINS
    THEN { SubSeq(p, 1, MAX_DOMAINS) : p \in FisherYates(all, Len(all)) }
    ELSE { all }

\* The loop head with the lookup called but not awaited: the store is asked
\* for the candidate while its lookup is still under way.
LoopHeadLookupNotAwaited(data, done, chk, ins, upd, err) ==
  /\ parsedData' = data
  /\ inserted' = ins
  /\ updated' = upd
  /\ errors' = err
  /\ IF done < Len(data)
       THEN /\ idx' = done + 1
            /\ checked' = chk + 1
            /\ pc' = "AwaitFind"
            /\ UNCHANGED <<result, fileExists, unlinks, summaries>>
       ELSE /\ idx' = done
            /\ checked' = chk
            /\ pc' = "Done"
            /\ result' = [checked |-> chk, inserted |-> ins, updated |-> upd,
                          total |-> Len(data), errors |-> err]
            /\ summaries' = Append(summaries, result')
            /\ fileExists' = FALSE
            /\ unlinks' = unlinks + 1

\* The head of saveToDatabase's for loop (part_004:338) after `done`
\* candidates, with the counters as given: either the next candidate's lookup
\* is called (part_004:341-345), or the loop is over, saveToDatabase returns
\* the summary (part_004:449) and processCSV deletes the file and returns it
\* (part_004:487-499).  When that unlinkSync throws, the catch tries it once
\* more, swallows a second failure and rethrows the first (part_004:500-514).
LoopHead(data, done, chk, ins, upd, err) ==
  /\ parsedData' = data
  /\ inserted' = ins
  /\ updated' = upd
  /\ errors' = err
  /\ IF done < Len(data)
       THEN /\ idx' = done + 1
            /\ checked' = chk + 1
            /\ pc' = "AwaitLookup"
            /\ UNCHANGED <<result, fileExists, unlinks, summaries>>
       ELSE /\ idx' = done
            /\ checked' = chk
            /\ \/ /\ pc' = "Done"
                  /\ result' = [checked |-> chk, inserted |-> ins, updated |-> upd,
                                total |-> Len(data), errors |-> err]
                  /\ summaries' = Append(summaries, result')
                  /\ fileExists' = FALSE
                  /\ unlinks' = unlinks + 1
               \/ /\ ~unlinkReliable
                  /\ pc' = "Failed"
                  /\ fileExists' \in BOOLEAN
                  /\ unlinks' = unlinks + 2
                  /\ UNCHANGED <<result, summaries>>

\* The 'data' handler (part_004:19-41): the stream keeps emitting rows after
\* shouldStop is set, and the handler returns at once for those.
ReadRow ==
  /\ pc = "Sampling"
  /\ fileExists
  /\ streamPos < Len(csv)
  /\ streamPos' = streamPos + 1
  /\ IF shouldStop
       THEN UNCHANGED <<rowCount, allResults, shouldStop>>
       ELSE LET mappedData == mapCSVToDatabase(csv[streamPos + 1])
            IN /\ rowCount' = rowCount + 1
               /\ allResults' = IF mappedData # NoCandidate
                                  THEN Append(allResults, mappedData)
                                  ELSE allResults
               /\ shouldStop' = (rowCount + 1 >= SAMPLE_SIZE)
  /\ UNCHANGED <<pc, parsedData, idx, checked, inserted, updated, errors, result,
                 settled, failed>>
  /\ UNCHANGED envVars
  /\ UNCHANGED batchVars
  /\ UNCHANGED calcVars
  /\ UNCHANGED raceVars

\* The 'end' handler (part_004:42-80) resolves parseCSV; processCSV goes on
\* into saveToDatabase (part_004:474-481, 326-345).
StreamEnd ==
  /\ pc = "Sampling"
  /\ csvKind = "ok"
  /\ streamPos = Len(csv)
  /\ \E selectedResults \in SelectedResults(allResults) :
       LoopHead(selectedResults, 0, 0, 0, 0, 0)
  /\ UNCHANGED <<streamPos, rowCount, shouldStop, allResults, settled, failed>>
  /\ UNCHANGED <<csv, csvKind, store, store0, runNo, lookupStub, storeReliable,
                 unlinkReliable>>
  /\ UNCHANGED batchVars
  /\ UNCHANGED calcVars
  /\ UNCHANGED raceVars

\* A catch that rethrows without touching the file.
ParserErrorNoCleanup ==
  /\ pc = "Sampling"
  /\ csvKind = "parseError"
  /\ pc' = "Failed"
  /\ UNCHANGED <<streamPos, rowCount, shouldStop, allResults, parsedData, idx,
                 checked, inserted, updated, errors, result, settled, failed>>
  /\ UNCHANGED envVars
  /\ UNCHANGED batchVars
  /\ UNCHANGED calcVars
  /\ UNCHANGED raceVars

\* The 'error' handler on the parser (part_004:81-84) rejects parseCSV;
\* processCSV's catch deletes the file, swallows a failure of the deletion,
\* and rethrows (part_004:500-515).
ParserError ==
  /\ pc = "Sampling"
  /\ csvKind = "parseError"
  /\ pc' = "Failed"
  /\ fileExists' \in (IF unlinkReliable THEN {FALSE} ELSE BOOLEAN)
  /\ unlinks' = unlinks + 1
  /\ UNCHANGED <<streamPos, rowCount, shouldStop, allResults, parsedData, idx,
                 checked, inserted, updated, errors, result, settled, failed>>
  /\ UNCHANGED <<csv, csvKind, store, store0, runNo, lookupStub, storeReliable,
                 unlinkReliable, summaries>>
  /\ UNCHANGED batchVars
  /\ UNCHANGED calcVars
  /\ UNCHANGED raceVars

\* An 'error' of the file read stream: the handlers of part_004:19-84 are on
\* the parser that pipe() returns (part_004:17-18), none is on the read
\* stream, so the event is an uncaught exception and the process exits
\* (server.js:169-172).  parseCSV's promise is never settled.
ReadStreamError ==
  /\ pc = "Sampling"
  /\ csvKind = "readError"
  /\ pc' = "Crashed"
  /\ UNCHANGED <<streamPos, rowCount, shouldStop, allResults, parsedData, idx,
                 checked, inserted, updated, errors, result, settled, failed>>
  /\ UNCHANGED envVars
  /\ UNCHANGED batchVars
  /\ UNCHANGED calcVars
  /\ UNCHANGED raceVars

(***************************************************************************)
(* The availability lookup of one candidate                                *)
(***************************************************************************)

\* GoDaddyService.checkAvailability (godaddyService.js:70-78) on an answer
\* of the API: price is data.price / 100, or null without a price.
checkAvailability(domain, api) ==
  [ domain |-> domain,
    available |-> api.available,
    price |-> IF api.price # 0 THEN Norm([n |-> api.price, d |-> 100]) ELSE NoNumber,
    currency |-> "USD",
    period |-> 1 ]

\* GoDaddyService.checkDomainAvailability (godaddyService.js:168-182).
godaddyCheckDomainAvailability(domain, api) ==
  LET r == checkAvailability(domain, api)
  IN [ domain |-> r.domain,
       available |-> r.available,
       price |-> r.price,
       currency |-> r.currency,
       period |-> r.period,
       status |-> IF r.available THEN sAvailable ELSE sTaken ]

\* The request fails (checkAvailability throws, godaddyService.js:79-82) or
\* the service cannot be loaded.
ApiFailure == [error |-> "Failed to check domain availability"]

\* CSVService.checkDomainAvailability (part_004:519-545).
checkDomainAvailability(domain, api) ==
  IF api = ApiFailure THEN NoAvailability
  ELSE LET a == godaddyCheckDomainAvailability(domain, api)
       IN [ available |-> a.available,
            status |-> IF a.status # <<>> THEN a.status ELSE sUnknown,
            price |-> IF Truthy(a.price) THEN a.price ELSE NoNumber,
            currency |-> a.currency ]

\* A record with two more fields, as an assignment to a property that the
\* object may not have yet.
WithFields(data, available, estimation_price) ==
  [f \in DOMAIN data \cup {"available", "estimation_price"} |->
     IF f = "available" THEN available
     ELSE IF f = "estimation_price" THEN estimation_price
     ELSE data[f]]

\* data.status = data.status || 'Unknown' (part_004:367)
StatusAfterFailedLookup(status) == IF status # <<>> THEN status ELSE sUnknown

\* data.price = availability.price, without the fall back to the CSV price.
ApplyAvailabilityLookupPriceOnly(data, availability) ==
  IF availability # NoAvailability
    THEN LET status == availability.status
             price == availability.price
             score == calculateEnhancedScore(data.domain, price, data.length, status,
                                             availability)
             d1 == [data EXCEPT !.status = status, !.price = price, !.score = score]
         IN WithFields(d1, availability.available,
                       calculateEstimatedValue(data.domain, score, data.length,
                                               data.extension))
    ELSE LET d1 == [data EXCEPT !.status = StatusAfterFailedLookup(data.status)]
         IN WithFields(d1, FALSE,
                       calculateEstimatedValue(data.domain, data.score, data.length,
                                               data.extension))

\* What saveToDatabase makes of `data` once the lookup has returned
\* (part_004:347-376).
ApplyAvailability(data, availability) ==
  IF availability # NoAvailability
    THEN LET status == availability.status
             price == IF Truthy(availability.price) THEN availability.price ELSE data.price
             score == calculateEnhancedScore(data.domain, price, data.length, status,
                                             availability)
             d1 == [data EXCEPT !.status = status, !.price = price, !.score = score]
         IN WithFields(d1, availability.available,
                       calculateEstimatedValue(data.domain, score, data.length,
                                               data.extension))
    ELSE LET d1 == [data EXCEPT !.status = StatusAfterFailedLookup(data.status)]
         IN WithFields(d1, FALSE,
                       calculateEstimatedValue(data.domain, data.score, data.length,
                                               data.extension))

(***************************************************************************)
(* The store: table suggested_domains through the supabase client          *)
(***************************************************************************)

\* A lookup of the row by the lower-cased domain.
FindByDomainCaseFolded(rows, d) == {r \in rows : r.domain = toLowerCase(d)}

\* .select('id').eq('domain', d).limit(1)
FindByDomain(rows, d) == {r \in rows : r.domain = d}

\* An update that leaves `available` out.
UpdateFieldsWithoutAvailable ==
  {"price", "estimation_price", "extension", "status", "score",
   "drop_time", "crawl_time", "tld", "length"}

\* .update({price, estimation_price, extension, status, score, drop_time,
\*          crawl_time, tld, length, available}).eq('domain', d)
UpdateFields == {"price", "estimation_price", "extension", "status", "score",
                 "drop_time", "crawl_time", "tld", "length", "available"}

\* An update that writes the price only.
UpdateRowPriceOnly(r, data) == [r EXCEPT !.price = data.price]

UpdateRow(r, data) ==
  [f \in DOMAIN r |-> IF f \in UpdateFields THEN data[f] ELSE r[f]]

\* An update without the .eq('domain', d) filter.
UpdateEveryRow(rows, data) == {UpdateRow(r, data) : r \in rows}

UpdateByDomain(rows, data) ==
  {IF r.domain = data.domain THEN UpdateRow(r, data) ELSE r : r \in rows}

\* .insert([{...data, available: data.available || false}])
InsertRow(rows, data) == rows \cup {data}

(***************************************************************************)
(* saveToDatabase (part_004:326-454), one action per await                 *)
(***************************************************************************)

\* What a lookup can meet: the stub's answer, or any answer of the API or a
\* failure.
ApiAnswers == IF lookupStub # NoStub THEN {lookupStub} ELSE ApiResponses \cup {ApiFailure}

\* `await this.checkDomainAvailability(data.domain)` returns; the candidate is
\* filled in and the existence query is sent (part_004:345-383).
LookupSettle ==
  /\ pc = "AwaitLookup"
  /\ \E api \in ApiAnswers :
       LET availability == checkDomainAvailability(parsedData[idx].domain, api)
       IN /\ parsedData' = [parsedData EXCEPT
                              ![idx] = ApplyAvailability(parsedData[idx], availability)]
          /\ failed' = IF availability = NoAvailability THEN failed \cup {idx} ELSE failed
  /\ settled' = settled \cup {idx}
  /\ pc' = "AwaitFind"
  /\ UNCHANGED <<streamPos, rowCount, shouldStop, allResults, idx, checked, inserted,
                 updated, errors, result>>
  /\ UNCHANGED envVars
  /\ UNCHANGED batchVars
  /\ UNCHANGED calcVars
  /\ UNCHANGED raceVars

\* The existence query returns rows: the update or the insert is sent
\* (part_004:391-425).
FindSettleOk ==
  /\ pc = "AwaitFind"
  /\ pc' = IF FindByDomain(store, parsedData[idx].domain) # {}
             THEN "AwaitUpdate" ELSE "AwaitInsert"
  /\ UNCHANGED <<streamPos, rowCount, shouldStop, allResults, parsedData, idx,
                 checked, inserted, updated, errors, result, settled, failed>>
  /\ UNCHANGED envVars
  /\ UNCHANGED batchVars
  /\ UNCHANGED calcVars
  /\ UNCHANGED raceVars

\* A failed existence query without the `continue`: the error is counted and
\* the insert is sent all the same.
FindSettleFailGoesOnToInsert ==
  /\ pc = "AwaitFind"
  /\ ~storeReliable
  /\ pc' = "AwaitInsert"
  /\ errors' = errors + 1
  /\ UNCHANGED <<streamPos, rowCount, shouldStop, allResults, parsedData, idx,
                 checked, inserted, updated, result, settled, failed>>
  /\ UNCHANGED envVars
  /\ UNCHANGED batchVars
  /\ UNCHANGED calcVars
  /\ UNCHANGED raceVars

\* The existence query returns checkError (errors++, continue: part_004:385-389)
\* or the call throws (catch rowError, errors++: part_004:442-445).
FindSettleFail ==
  /\ pc = "AwaitFind"
  /\ ~storeReliable
  /\ LoopHead(parsedData, idx, checked, inserted, updated, errors + 1)
  /\ UNCHANGED <<streamPos, rowCount, shouldStop, allResults, settled, failed>>
  /\ UNCHANGED <<csv, csvKind, store, store0, runNo, lookupStub, storeReliable,
                 unlinkReliable>>
  /\ UNCHANGED batchVars
  /\ UNCHANGED calcVars
  /\ UNCHANGED raceVars

\* After the update or insert has returned (not thrown): the 100 ms delay when
\* another candidate follows (part_004:437-440), else the end of the loop.
AfterWrite(ins, upd, err) ==
  IF checked < Len(parsedData)
    THEN /\ pc' = "AwaitDelay"
         /\ inserted' = ins
         /\ updated' = upd
         /\ errors' = err
         /\ UNCHANGED <<parsedData, idx, checked, result, fileExists, unlinks, summaries>>
    ELSE LoopHead(parsedData, idx, checked, ins, upd, err)

\* The update returns without error (part_004:394-416).
UpdateSettleOk ==
  /\ pc = "AwaitUpdate"
  /\ store' = UpdateByDomain(store, parsedData[idx])
  /\ AfterWrite(inserted, updated + 1, errors)
  /\ UNCHANGED <<streamPos, rowCount, shouldStop, allResults, settled, failed>>
  /\ UNCHANGED <<csv, csvKind, store0, runNo, lookupStub, storeReliable,
                 unlinkReliable>>
  /\ UNCHANGED batchVars
  /\ UNCHANGED calcVars
  /\ UNCHANGED raceVars

\* The update returns updateError (part_004:410-412); nothing is written.
UpdateSettleError ==
  /\ pc = "AwaitUpdate"
  /\ ~storeReliable
  /\ AfterWrite(inserted, updated, errors + 1)
  /\ UNCHANGED <<streamPos, rowCount, shouldStop, allResults, settled, failed>>
  /\ UNCHANGED <<csv, csvKind, store, store0, runNo, lookupStub, storeReliable,
                 unlinkReliable>>
  /\ UNCHANGED batchVars
  /\ UNCHANGED calcVars
  /\ UNCHANGED raceVars

\* The insert returns without error (part_004:420-433); the table accepts one
\* row per domain only.
InsertSettleOk ==
  /\ pc = "AwaitInsert"
  /\ FindByDomain(store, parsedData[idx].domain) = {}
  /\ store' = InsertRow(store, parsedData[idx])
  /\ AfterWrite(inserted + 1, updated, errors)
  /\ UNCHANGED <<streamPos, rowCount, shouldStop, allResults, settled, failed>>
  /\ UNCHANGED <<csv, csvKind, store0, runNo, lookupStub, storeReliable,
                 unlinkReliable>>
  /\ UNCHANGED batchVars
  /\ UNCHANGED calcVars
  /\ UNCHANGED raceVars

\* The insert returns insertError (part_004:427-429); nothing is written.
InsertSettleError ==
  /\ pc = "AwaitInsert"
  /\ ~storeReliable
  /\ AfterWrite(inserted, updated, errors + 1)
  /\ UNCHANGED <<streamPos, rowCount, shouldStop, allResults, settled, failed>>
  /\ UNCHANGED <<csv, csvKind, store, store0, runNo, lookupStub, storeReliable,
                 unlinkReliable>>
  /\ UNCHANGED batchVars
  /\ UNCHANGED calcVars
  /\ UNCHANGED raceVars

\* A catch of rowError that does not count the error.
WriteThrowsUncounted ==
  /\ pc \in {"AwaitUpdate", "AwaitInsert"}
  /\ ~storeReliable
  /\ LoopHead(parsedData, idx, checked, inserted, updated, errors)
  /\ UNCHANGED <<streamPos, rowCount, shouldStop, allResults, settled, failed>>
  /\ UNCHANGED <<csv, csvKind, store, store0, runNo, lookupStub, storeReliable,
                 unlinkReliable>>
  /\ UNCHANGED batchVars
  /\ UNCHANGED calcVars
  /\ UNCHANGED raceVars

\* The update or insert call throws: catch rowError, errors++, next candidate
\* without the delay (part_004:442-445).
WriteThrows ==
  /\ pc \in {"AwaitUpdate", "AwaitInsert"}
  /\ ~storeReliable
  /\ LoopHead(parsedData, idx, checked, inserted, updated, errors + 1)
  /\ UNCHANGED <<streamPos, rowCount, shouldStop, allResults, settled, failed>>
  /\ UNCHANGED <<csv, csvKind, store, store0, runNo, lookupStub, storeReliable,
                 unlinkReliable>>
  /\ UNCHANGED batchVars
  /\ UNCHANGED calcVars
  /\ UNCHANGED raceVars

\* The 100 ms timer fires (part_004:439): on to the next candidate.
DelaySettle ==
  /\ pc = "AwaitDelay"
  /\ LoopHead(parsedData, idx, checked, inserted, updated, errors)
  /\ UNCHANGED <<streamPos, rowCount, shouldStop, allResults, settled, failed>>
  /\ UNCHANGED <<csv, csvKind, store, store0, runNo, lookupStub, storeReliable,
                 unlinkReliable>>
  /\ UNCHANGED batchVars
  /\ UNCHANGED calcVars
  /\ UNCHANGED raceVars

(***************************************************************************)
(* The next upload                                                         *)
(***************************************************************************)

\* The same CSV content is uploaded again and processCSV is called on it
\* (routes/admin.js:73), once the run before has returned or thrown.
Reupload ==
  /\ pc \in {"Done", "Failed"}
  /\ runNo < MaxRuns
  /\ runNo' = runNo + 1
  /\ fileExists' = TRUE
  /\ pc' = "Sampling"
  /\ streamPos' = 0
  /\ rowCount' = 0
  /\ shouldStop' = FALSE
  /\ allResults' = <<>>
  /\ parsedData' = <<>>
  /\ idx' = 0
  /\ checked' = 0 /\ inserted' = 0 /\ updated' = 0 /\ errors' = 0
  /\ result' = NoResult
  /\ settled' = {}
  /\ failed' = {}
  /\ unlinks' = 0
  /\ UNCHANGED <<csv, csvKind, store, store0, lookupStub, storeReliable,
                 unlinkReliable, summaries>>
  /\ UNCHANGED batchVars
  /\ UNCHANGED calcVars
  /\ UNCHANGED raceVars

Next ==
  \/ ReadRow
  \/ StreamEnd
  \/ ParserError
  \/ ReadStreamError
  \/ LookupSettle
  \/ FindSettleOk
  \/ FindSettleFail
  \/ UpdateSettleOk
  \/ UpdateSettleError
  \/ InsertSettleOk
  \/ InsertSettleError
  \/ WriteThrows
  \/ DelaySettle

Spec == Init /\ [][Next]_vars

(***************************************************************************)
(* Two uploads in a row against a stub lookup service and a store that     *)
(* does not fail                                                           *)
(***************************************************************************)

RerunInit ==
  /\ BatchIdle
  /\ CalcIdle
  /\ RaceIdle
  /\ csv \in CsvFiles
  /\ csvKind = "ok"
  /\ fileExists = TRUE
  /\ store0 \in InitialStores
  /\ store = store0
  /\ runNo = 1
  /\ lookupStub \in ApiResponses
  /\ storeReliable = TRUE
  /\ unlinkReliable = TRUE
  /\ summaries = <<>>
  /\ RunStart

RerunNext ==
  \/ ReadRow
  \/ StreamEnd
  \/ LookupSettle
  \/ FindSettleOk
  \/ UpdateSettleOk
  \/ InsertSettleOk
  \/ DelaySettle
  \/ Reupload

RerunSpec == RerunInit /\ [][RerunNext]_vars

(***************************************************************************)
(* GoDaddyService.batchCheckAvailability (godaddyService.js:138-165)       *)
(***************************************************************************)

\* Longest list of domains and largest concurrency a batch is called with.
MaxBatch == 4
MaxConcurrency == 3

BatchDomains == { <<"a","b",".","c","o","m">>, <<"x",".","n","e","t">> }

NotStarted == [state |-> "notStarted"]
InFlight == [state |-> "inFlight"]

\* A loop that stops at the last full chunk (i + size <= array.length).
RECURSIVE chunkArrayFullChunksOnly(_, _)
chunkArrayFullChunksOnly(array, size) ==
  IF Len(array) < size THEN <<>>
  ELSE <<SubSeq(array, 1, size)>>
         \o chunkArrayFullChunksOnly(SubSeq(array, size + 1, Len(array)), size)

\* chunkArray (godaddyService.js:185-191)
RECURSIVE chunkArray(_, _)
chunkArray(array, size) ==
  IF array = <<>> THEN <<>>
  ELSE <<SubSeq(array, 1, Min(size, Len(array)))>>
         \o chunkArray(SubSeq(array, Min(size, Len(array)) + 1, Len(array)), size)

RECURSIVE Flatten(_)
Flatten(cs) == IF cs = <<>> THEN <<>> ELSE Head(cs) \o Flatten(Tail(cs))

\* Position in `domains` of element k of chunk c.
PositionOf(c, k) == Len(Flatten(SubSeq(chunks, 1, c - 1))) + k

\* What Promise.allSettled reports for a lookup that got the answer `api`
\* (godaddyService.js:143-144, 70-82).
SettledPromise(domain, api) ==
  IF api = ApiFailure
    THEN [status |-> "rejected", reason |-> [message |-> ApiFailure.error]]
    ELSE [status |-> "fulfilled", value |-> checkAvailability(domain, api)]

\* The entry the forEach pushes for element `index` of the chunk
\* (godaddyService.js:146-156).
ChunkResult(chunk, index, settledPromise) ==
  IF settledPromise.status = "fulfilled"
    THEN settledPromise.value
    ELSE [domain |-> chunk[index], available |-> FALSE,
          error |-> settledPromise.reason.message]

\* Promise.all in place of Promise.allSettled: one rejected lookup makes the
\* whole chunk count as failed.
ChunkResultsAllOrNothing(c) ==
  [k \in 1..Len(chunks[c]) |->
     IF \E m \in 1..Len(chunks[c]) : lookups[PositionOf(c, m)] = ApiFailure
       THEN [domain |-> chunks[c][k], available |-> FALSE, error |-> ApiFailure.error]
       ELSE checkAvailability(chunks[c][k], lookups[PositionOf(c, k)])]

\* chunkResults.forEach(...) (godaddyService.js:144-156)
ChunkResults(c) ==
  [k \in 1..Len(chunks[c]) |->
     ChunkResult(chunks[c], k, SettledPromise(chunks[c][k], lookups[PositionOf(c, k)]))]

\* The lookups of chunk c and of every later chunk are started together.
StartChunkAndRest(c) ==
  [i \in 1..Len(lookups) |-> IF lookups[i] = NotStarted THEN InFlight ELSE lookups[i]]

\* chunk.map(domain => this.checkAvailability(domain)): every lookup of chunk
\* c is started (godaddyService.js:143).
StartChunk(c) ==
  [i \in 1..Len(lookups) |->
     IF \E k \in 1..Len(chunks[c]) : PositionOf(c, k) = i THEN InFlight ELSE lookups[i]]

pipelineVars == <<csv, csvKind, fileExists, store, store0, runNo, pc, streamPos,
                  rowCount, shouldStop, allResults, parsedData, idx, checked,
                  inserted, updated, errors, result, settled, failed, lookupStub,
                  storeReliable, unlinkReliable, unlinks, summaries>>

\* The function runs to its first await: the chunks are cut and the lookups
\* of the first chunk are started, or the empty result is returned
\* (godaddyService.js:139-144, 164).
BatchStart ==
  /\ batchPc = "Called"
  /\ chunks' = chunkArray(domains, concurrency)
  /\ results' = <<>>
  /\ IF chunks' = <<>>
       THEN /\ batchPc' = "Returned"
            /\ chunkNo' = 0
            /\ UNCHANGED lookups
       ELSE /\ batchPc' = "AwaitChunk"
            /\ chunkNo' = 1
            /\ lookups' = [i \in 1..Len(domains) |->
                             IF i <= Len(chunks'[1]) THEN InFlight ELSE NotStarted]
  /\ UNCHANGED <<domains, concurrency, delays>>
  /\ UNCHANGED pipelineVars
  /\ UNCHANGED calcVars
  /\ UNCHANGED raceVars

\* One lookup in flight settles: the API answers or the request fails.
BatchLookupSettle ==
  /\ batchPc = "AwaitChunk"
  /\ \E i \in 1..Len(lookups) :
       /\ lookups[i] = InFlight
       /\ \E api \in ApiResponses \cup {ApiFailure} :
            lookups' = [lookups EXCEPT ![i] = api]
  /\ UNCHANGED <<batchPc, domains, concurrency, chunks, chunkNo, results, delays>>
  /\ UNCHANGED pipelineVars
  /\ UNCHANGED calcVars
  /\ UNCHANGED raceVars

\* The delay is awaited after every chunk, the final one included.
BatchChunkDoneDelayAfterLast ==
  /\ batchPc = "AwaitChunk"
  /\ \A k \in 1..Len(chunks[chunkNo]) : lookups[PositionOf(chunkNo, k)] # InFlight
  /\ results' = results \o ChunkResults(chunkNo)
  /\ batchPc' = IF chunkNo < Len(chunks) THEN "AwaitDelay" ELSE "Returned"
  /\ delays' = delays + 1
  /\ UNCHANGED <<domains, concurrency, chunks, chunkNo, lookups>>
  /\ UNCHANGED pipelineVars
  /\ UNCHANGED calcVars
  /\ UNCHANGED raceVars

\* Promise.allSettled resolves: the chunk's results are pushed, then either
\* the delay is awaited or the function returns (godaddyService.js:144-164).
BatchChunkDone ==
  /\ batchPc = "AwaitChunk"
  /\ \A k \in 1..Len(chunks[chunkNo]) : lookups[PositionOf(chunkNo, k)] # InFlight
  /\ results' = results \o ChunkResults(chunkNo)
  /\ IF chunkNo < Len(chunks)
       THEN /\ batchPc' = "AwaitDelay"
            /\ delays' = delays + 1
       ELSE /\ batchPc' = "Returned"
            /\ UNCHANGED delays
  /\ UNCHANGED <<domains, concurrency, chunks, chunkNo, lookups>>
  /\ UNCHANGED pipelineVars
  /\ UNCHANGED calcVars
  /\ UNCHANGED raceVars

\* The delay is over: the lookups of the next chunk are started.
BatchDelaySettle ==
  /\ batchPc = "AwaitDelay"
  /\ chunkNo' = chunkNo + 1
  /\ lookups' = StartChunk(chunkNo + 1)
  /\ batchPc' = "AwaitChunk"
  /\ UNCHANGED <<domains, concurrency, chunks, results, delays>>
  /\ UNCHANGED pipelineVars
  /\ UNCHANGED calcVars
  /\ UNCHANGED raceVars

\* No processCSV call is under way.
PipelineIdle ==
  /\ csv = <<>>
  /\ csvKind = "ok"
  /\ fileExists = FALSE
  /\ store0 = {}
  /\ store = {}
  /\ runNo = 0
  /\ lookupStub = NoStub
  /\ storeReliable = FALSE
  /\ unlinkReliable = FALSE
  /\ unlinks = 0
  /\ summaries = <<>>
  /\ pc = "Idle"
  /\ streamPos = 0
  /\ rowCount = 0
  /\ shouldStop = FALSE
  /\ allResults = <<>>
  /\ parsedData = <<>>
  /\ idx = 0
  /\ checked = 0 /\ inserted = 0 /\ updated = 0 /\ errors = 0
  /\ result = NoResult
  /\ settled = {}
  /\ failed = {}

BatchInit ==
  /\ PipelineIdle
  /\ CalcIdle
  /\ RaceIdle
  /\ batchPc = "Called"
  /\ domains \in SeqsUpTo(BatchDomains, MaxBatch)
  /\ concurrency \in 1..MaxConcurrency
  /\ chunks = <<>>
  /\ chunkNo = 0
  /\ lookups = <<>>
  /\ results = <<>>
  /\ delays = 0

BatchNext ==
  \/ BatchStart
  \/ BatchLookupSettle
  \/ BatchChunkDone
  \/ BatchDelaySettle

BatchSpec == BatchInit /\ [][BatchNext]_vars

(***************************************************************************)
(* Direct calls of the pure functions of CSVService                        *)
(***************************************************************************)

MaxPriceLen == 4
MaxLength == 12

PriceChars == {"1", "0", ",", ".", " ", "x"}

\* The strings of testPriceParsing (part_004:189-201) and a missing cell.
PriceExamples ==
  { Undefined,
    <<"1","0",",","6">>,
    <<"1"," ","2","3","4",",","5","6">>,
    <<"1","0",",","6","0","0">>,
    <<"1",",","2","3","4",".","5","6">>,
    <<"1","0",",","6"," ","9","0","0">>,
    <<"$","1",",","2","3","4">>,
    <<"1","2","3","4">> }

PriceTexts == SeqsUpTo(PriceChars, MaxPriceLen) \cup PriceExamples

ScoreDomains ==
  { <<"a","b",".","c","o","m">>,
    <<"W","e","b",".","C","O","M">>,
    <<"a","i","t","e","c","h","h","u","b",".","i","o">>,
    <<"x","-","9","9","9",".","n","e","t">>,
    <<"s","h","o","p",".","c","o","n","s","t","r","u","c","t","o","r">> }

ScorePrices == {NoNumber, Num(0), Num(51), Num(101), Num(501), Num(1001)}

ScoreStatuses == {<<>>, sAvailable, sAvailableSoon, sPremium, sTaken}

ScoreAvailabilities ==
  { NoAvailability,
    [available |-> TRUE, status |-> sAvailable],
    [available |-> TRUE, status |-> sAvailableSoon],
    [available |-> FALSE, status |-> sTaken] }

EstimateExtensions ==
  { <<>>, sDotCom, sCom, <<"a","i">>, <<"d","e","v">>,
    <<"c","o","n","s","t","r","u","c","t","o","r">> }

EstimateDomains == { <<"a","b",".","c","o","m">>, <<"x",".","i","o">> }

PriceCalls == {[fn |-> "parsePrice", priceStr |-> t] : t \in PriceTexts}

ScoreCalls ==
  {[fn |-> "calculateScore", domain |-> d, price |-> p, length |-> l, status |-> s] :
     d \in ScoreDomains, p \in ScorePrices, l \in 1..MaxLength, s \in ScoreStatuses}

EnhancedScoreCalls ==
  {[fn |-> "calculateEnhancedScore", domain |-> d, price |-> p, length |-> l,
    status |-> s, availability |-> a] :
     d \in ScoreDomains, p \in ScorePrices, l \in 1..MaxLength, s \in ScoreStatuses,
     a \in ScoreAvailabilities}

EstimateCalls ==
  {[fn |-> "calculateEstimatedValue", domain |-> d, score |-> sc, length |-> l,
    extension |-> e] :
     d \in EstimateDomains, sc \in 10..100, l \in 1..MaxLength, e \in EstimateExtensions}

Returned(v) == [returned |-> TRUE, value |-> v]

CallParsePrice ==
  /\ call.fn = "parsePrice"
  /\ ret = NotReturned
  /\ ret' = Returned(parsePrice(call.priceStr))
  /\ UNCHANGED <<call>>
  /\ UNCHANGED raceVars
  /\ UNCHANGED pipelineVars
  /\ UNCHANGED batchVars

CallCalculateScore ==
  /\ call.fn = "calculateScore"
  /\ ret = NotReturned
  /\ ret' = Returned(calculateScore(call.domain, call.price, call.length, call.status))
  /\ UNCHANGED <<call>>
  /\ UNCHANGED raceVars
  /\ UNCHANGED pipelineVars
  /\ UNCHANGED batchVars

CallCalculateEnhancedScore ==
  /\ call.fn = "calculateEnhancedScore"
  /\ ret = NotReturned
  /\ ret' = Returned(calculateEnhancedScore(call.domain, call.price, call.length,
                                            call.status, call.availability))
  /\ UNCHANGED <<call>>
  /\ UNCHANGED raceVars
  /\ UNCHANGED pipelineVars
  /\ UNCHANGED batchVars

CallCalculateEstimatedValue ==
  /\ call.fn = "calculateEstimatedValue"
  /\ ret = NotReturned
  /\ ret' = Returned(calculateEstimatedValue(call.domain, call.score, call.length,
                                             call.extension))
  /\ UNCHANGED <<call>>
  /\ UNCHANGED raceVars
  /\ UNCHANGED pipelineVars
  /\ UNCHANGED batchVars

CalcInit ==
  /\ PipelineIdle
  /\ BatchIdle
  /\ RaceIdle
  /\ call \in PriceCalls \cup ScoreCalls \cup EnhancedScoreCalls \cup EstimateCalls
  /\ ret = NotReturned

CalcNext ==
  \/ CallParsePrice
  \/ CallCalculateScore
  \/ CallCalculateEnhancedScore
  \/ CallCalculateEstimatedValue

CalcSpec == CalcInit /\ [][CalcNext]_vars

(***************************************************************************)
(* Concurrent runs: the upsert of one candidate (part_004:378-434) by      *)
(* processCSV calls that run at the same time against one store            *)
(***************************************************************************)

\* Runs that are under way at the same time.
MaxConcurrentRuns == 2

Runs == 1..MaxConcurrentRuns

\* The CSV row of run r: the same domain in every upload, a price of its own.
rowOfRun(r) ==
  [rowAb EXCEPT !.price = <<SubSeq(<<"1","2","3","4","5","6","7","8","9">>, r, r)[1], "9">>]

\* The candidate of run r when its existence query is sent: mapped from the
\* row and filled in by the lookup (part_004:345-376).
RaceCandidates(r) ==
  { ApplyAvailability(mapCSVToDatabase(rowOfRun(r)),
                      checkDomainAvailability(rowOfRun(r).domain, api)) :
      api \in ApiResponses \cup {ApiFailure} }

RaceDomain == rowAb.domain

\* Run r with one field changed.
RunWith(r, pc1, ins, upd, err) ==
  [runs EXCEPT ![r] = [pc |-> pc1, data |-> runs[r].data,
                       inserted |-> runs[r].inserted + ins,
                       updated |-> runs[r].updated + upd,
                       errors |-> runs[r].errors + err]]

\* The existence query of run r returns (part_004:379-391).
RaceFindSettle(r) ==
  /\ runs[r].pc = "AwaitFind"
  /\ runs' = RunWith(r, IF FindByDomain(store, runs[r].data.domain) # {}
                          THEN "AwaitUpdate" ELSE "AwaitInsert", 0, 0, 0)
  /\ UNCHANGED writeLog
  /\ UNCHANGED pipelineVars
  /\ UNCHANGED batchVars
  /\ UNCHANGED calcVars

\* The update of run r returns (part_004:394-416).
RaceUpdateSettle(r) ==
  /\ runs[r].pc = "AwaitUpdate"
  /\ store' = UpdateByDomain(store, runs[r].data)
  /\ runs' = RunWith(r, "Settled", 0, 1, 0)
  /\ writeLog' = Append(writeLog, [run |-> r, kind |-> "update", accepted |-> TRUE])
  /\ UNCHANGED <<csv, csvKind, fileExists, store0, runNo, pc, streamPos,
                 rowCount, shouldStop, allResults, parsedData, idx, checked,
                 inserted, updated, errors, result, settled, failed, lookupStub,
                 storeReliable, unlinkReliable, unlinks, summaries>>
  /\ UNCHANGED batchVars
  /\ UNCHANGED calcVars

\* An insert into a table without a unique key on the domain.
RaceInsertSettleNoUniqueKey(r) ==
  /\ runs[r].pc = "AwaitInsert"
  /\ store' = InsertRow(store, runs[r].data)
  /\ runs' = RunWith(r, "Settled", 1, 0, 0)
  /\ writeLog' = Append(writeLog, [run |-> r, kind |-> "insert", accepted |-> TRUE])
  /\ UNCHANGED <<csv, csvKind, fileExists, store0, runNo, pc, streamPos,
                 rowCount, shouldStop, allResults, parsedData, idx, checked,
                 inserted, updated, errors, result, settled, failed, lookupStub,
                 storeReliable, unlinkReliable, unlinks, summaries>>
  /\ UNCHANGED batchVars
  /\ UNCHANGED calcVars

\* An insert that looks again and updates the row that is there by now.
RaceInsertSettleRechecked(r) ==
  /\ runs[r].pc = "AwaitInsert"
  /\ IF FindByDomain(store, runs[r].data.domain) = {}
       THEN /\ store' = InsertRow(store, runs[r].data)
            /\ runs' = RunWith(r, "Settled", 1, 0, 0)
            /\ writeLog' = Append(writeLog,
                                  [run |-> r, kind |-> "insert", accepted |-> TRUE])
       ELSE /\ store' = UpdateByDomain(store, runs[r].data)
            /\ runs' = RunWith(r, "Settled", 0, 1, 0)
            /\ writeLog' = Append(writeLog,
                                  [run |-> r, kind |-> "update", accepted |-> TRUE])
  /\ UNCHANGED <<csv, csvKind, fileExists, store0, runNo, pc, streamPos,
                 rowCount, shouldStop, allResults, parsedData, idx, checked,
                 inserted, updated, errors, result, settled, failed, lookupStub,
                 storeReliable, unlinkReliable, unlinks, summaries>>
  /\ UNCHANGED batchVars
  /\ UNCHANGED calcVars

\* The insert of run r returns (part_004:420-433): the row is added, or the
\* table, which holds one row per domain, answers insertError and the run
\* counts it (part_004:427-429).
RaceInsertSettle(r) ==
  /\ runs[r].pc = "AwaitInsert"
  /\ IF FindByDomain(store, runs[r].data.domain) = {}
       THEN /\ store' = InsertRow(store, runs[r].data)
            /\ runs' = RunWith(r, "Settled", 1, 0, 0)
            /\ writeLog' = Append(writeLog,
                                  [run |-> r, kind |-> "insert", accepted |-> TRUE])
       ELSE /\ store' = store
            /\ runs' = RunWith(r, "Settled", 0, 0, 1)
            /\ writeLog' = Append(writeLog,
                                  [run |-> r, kind |-> "insert", accepted |-> FALSE])
  /\ UNCHANGED <<csv, csvKind, fileExists, store0, runNo, pc, streamPos,
                 rowCount, shouldStop, allResults, parsedData, idx, checked,
                 inserted, updated, errors, result, settled, failed, lookupStub,
                 storeReliable, unlinkReliable, unlinks, summaries>>
  /\ UNCHANGED batchVars
  /\ UNCHANGED calcVars

\* Every run has sent the existence query for its candidate; the store
\* answers every call.
RaceInit ==
  /\ BatchIdle
  /\ CalcIdle
  /\ csv = <<>>
  /\ csvKind = "ok"
  /\ fileExists = FALSE
  /\ store0 \in InitialStores
  /\ store = store0
  /\ runNo = 0
  /\ lookupStub = NoStub
  /\ storeReliable = TRUE
  /\ unlinkReliable = TRUE
  /\ unlinks = 0
  /\ summaries = <<>>
  /\ pc = "Idle"
  /\ streamPos = 0
  /\ rowCount = 0
  /\ shouldStop = FALSE
  /\ allResults = <<>>
  /\ parsedData = <<>>
  /\ idx = 0
  /\ checked = 0 /\ inserted = 0 /\ updated = 0 /\ errors = 0
  /\ result = NoResult
  /\ settled = {}
  /\ failed = {}
  /\ runs \in [Runs -> UNION {[pc : {"AwaitFind"}, data : RaceCandidates(r),
                               inserted : {0}, updated : {0}, errors : {0}] :
                              r \in Runs}]
  /\ \A r \in Runs : runs[r].data \in RaceCandidates(r)
  /\ writeLog = <<>>

RaceNext ==
  \/ \E r \in Runs : RaceFindSettle(r)
  \/ \E r \in Runs : RaceUpdateSettle(r)
  \/ \E r \in Runs : RaceInsertSettle(r)

RaceSpec == RaceInit /\ [][RaceNext]_vars

(***************************************************************************)
(* Properties                                                              *)
(***************************************************************************)

\* The candidates the rows of a CSV prefix map to, in file order.
RECURSIVE MappedOf(_)
MappedOf(rows) ==
  IF rows = <<>> THEN <<>>
  ELSE LET m == mapCSVToDatabase(rows[Len(rows)])
           before == MappedOf(SubSeq(rows, 1, Len(rows) - 1))
       IN IF m = NoCandidate THEN before ELSE Append(before, m)

\* The rows of the sample window, and the candidates among them.
Window == SubSeq(csv, 1, Min(Len(csv), SAMPLE_SIZE))
WindowCandidates == MappedOf(Window)

\* The positions of the accepted rows (.com domain) in the whole file.
AcceptedRows == {i \in 1..Len(csv) : CandidateDomain(csv[i]) # <<>>}

DistinctAcceptedDomains ==
  \A i, j \in AcceptedRows : i # j => CandidateDomain(csv[i]) # CandidateDomain(csv[j])

\* The case of C1: N <= maxSelected accepted rows with pairwise distinct
\* domains, none of them in the store before the first upload, a stub lookup
\* and a store that does not fail.
C1_Case ==
  /\ csvKind = "ok"
  /\ lookupStub # NoStub
  /\ storeReliable
  /\ Cardinality(AcceptedRows) <= MAX_DOMAINS
  /\ DistinctAcceptedDomains
  /\ \A i \in AcceptedRows : \A r \in store0 : r.domain # CandidateDomain(csv[i])

C1_Outcome ==
  LET N == Cardinality(AcceptedRows)
  IN /\ Len(summaries) >= 1 =>
          /\ summaries[1].checked = N
          /\ summaries[1].inserted = N
          /\ summaries[1].updated = 0
          /\ summaries[1].errors = 0
     /\ (runNo = 1 /\ pc = "Done") =>
          /\ store \ store0 = {parsedData[i] : i \in 1..Len(parsedData)}
          /\ Cardinality(store \ store0) = N
     /\ Len(summaries) >= 2 =>
          /\ summaries[2].checked = N
          /\ summaries[2].inserted = 0
          /\ summaries[2].updated = N
          /\ summaries[2].errors = 0

\* C1 as stated: for a CSV whose accepted rows carry N <= maxSelected distinct
\* domains plus any number of rejected rows, none of the domains stored, the
\* first run returns {checked:N, inserted:N, updated:0, errors:0} and stores
\* those N rows, and the second run returns {checked:N, inserted:0, updated:N,
\* errors:0}.
C1_AnyNumberOfRejectedRows ==
  Len(summaries) >= 1 => (C1_Case => C1_Outcome)

\* C1 (amended): the same, for a CSV whose accepted rows all lie among the
\* first sampleWindow rows of the file.
C1_FirstRunInsertsSecondRunUpdates ==
  Len(summaries) >= 1 =>
    ((C1_Case /\ \A i \in AcceptedRows : i <= SAMPLE_SIZE) => C1_Outcome)

C1_Witness ==
  /\ Len(summaries) = 2
  /\ summaries[2].updated = MAX_DOMAINS
  /\ C1_Case
  /\ \A i \in AcceptedRows : i <= SAMPLE_SIZE
  /\ Cardinality(AcceptedRows) = MAX_DOMAINS
  /\ \E i \in 1..Len(csv) : i \notin AcceptedRows

C3_OneResultPerCandidateInOrder ==
  batchPc = "Returned" =>
    /\ Len(results) = Len(domains)
    /\ \A i \in 1..Len(domains) : results[i].domain = domains[i]

C3_Witness ==
  /\ batchPc = "Returned"
  /\ Len(domains) = MaxBatch
  /\ Len(chunks) >= 2
  /\ Len(chunks[Len(chunks)]) < concurrency
  /\ domains[1] # domains[2]
  /\ \E i \in 1..Len(domains) : lookups[i] = ApiFailure

\* C4: a failed lookup never fails the batch: its candidate gets a result
\* with available = false and the failure reason, and every other candidate
\* gets the result of its own lookup, whatever happened to the others.
C4_FailureStaysWithItsCandidate ==
  /\ batchPc \in {"Idle", "Called", "AwaitChunk", "AwaitDelay", "Returned"}
  /\ batchPc = "Returned" =>
       /\ DOMAIN results = DOMAIN lookups
       /\ \A i \in DOMAIN lookups :
            IF lookups[i] = ApiFailure
              THEN results[i] = [domain |-> domains[i], available |-> FALSE,
                                 error |-> "Failed to check domain availability"]
              ELSE results[i] = checkAvailability(domains[i], lookups[i])

C4_Witness ==
  /\ batchPc = "Returned"
  /\ \E c \in 1..Len(chunks) :
       /\ Len(chunks[c]) >= 2
       /\ \E k, m \in 1..Len(chunks[c]) :
            /\ lookups[PositionOf(c, k)] = ApiFailure
            /\ lookups[PositionOf(c, m)] \in ApiResponses
            /\ lookups[PositionOf(c, m)].available

\* C5 as stated: whenever the CSV can be read, processCSV returns a summary
\* and does not throw, whatever rows are malformed or rejected and whatever
\* lookups and store calls fail, and every sampled candidate has been
\* processed.
C5_OnlyUnreadableCsvIsFatal ==
  /\ csvKind = "ok" => pc \notin {"Failed", "Crashed"}
  /\ pc = "Done" =>
       /\ result # NoResult
       /\ settled = 1..Len(parsedData)
       /\ result.checked = Len(parsedData)

\* C6 as stated: after a failed lookup the candidate is recorded, and
\* persisted, with status Unknown and available = false, whatever status the
\* CSV row carried.
C6_FailedLookupIsUnknown ==
  \A i \in failed :
    /\ parsedData[i].status = sUnknown
    /\ parsedData[i].available = FALSE

C8_RunEndsDoneOrFailed ==
  \/ pc \in {"Done", "Failed"}
  \/ pc = "Sampling" /\ fileExists /\ streamPos < Len(csv)
  \/ ENABLED Next

\* C9: at Done every sampled candidate has been counted exactly once:
\* checked = total = number of sampled candidates, and
\* inserted + updated + errors = checked.
C9_EveryCandidateCountedOnce ==
  pc = "Done" =>
    /\ result.checked = Len(parsedData)
    /\ result.total = Len(parsedData)
    /\ result.inserted + result.updated + result.errors = result.checked

C9_Witness ==
  /\ pc = "Done"
  /\ Len(parsedData) = 2
  /\ result.errors = 1
  /\ result.updated = 1
  /\ failed # {}

\* parseCSV has just resolved: nothing of the selection has been touched yet.
JustSampled == (pc = "AwaitLookup" /\ idx = 1) \/ (pc = "Done" /\ parsedData = <<>>)

\* s holds elements of t taken at pairwise distinct positions of t.
TakenFrom(s, t) ==
  \E f \in [1..Len(s) -> 1..Len(t)] :
    /\ \A i, j \in 1..Len(s) : i # j => f[i] # f[j]
    /\ \A i \in 1..Len(s) : s[i] = t[f[i]]

\* C10: the sampler returns exactly min(N, maxSelected) candidates, N being
\* the number of rows of the sample window that map to a candidate: for
\* N > maxSelected they are maxSelected mapped candidates, no mapped row taken
\* twice; for N <= maxSelected they are exactly the N mapped candidates.
C10_SamplerReturnsMinOfNAndMax ==
  JustSampled =>
    /\ Len(parsedData) = Min(Len(WindowCandidates), MAX_DOMAINS)
    /\ TakenFrom(parsedData, WindowCandidates)
    /\ Len(WindowCandidates) <= MAX_DOMAINS => parsedData = WindowCandidates

\* A selection of maxSelected out of more, not the first ones, from a file
\* that is longer than the sample window.
C10_Witness ==
  /\ JustSampled
  /\ Len(csv) > SAMPLE_SIZE
  /\ Len(WindowCandidates) > MAX_DOMAINS
  /\ Len(parsedData) = MAX_DOMAINS
  /\ parsedData # SubSeq(WindowCandidates, 1, MAX_DOMAINS)
  /\ CandidateDomain(csv[Len(csv)]) # <<>>

WindowComRows ==
  {i \in 1..Len(Window) :
     /\ csv[i].domain # Undefined
     /\ trim(csv[i].domain) # <<>>
     /\ endsWith(toLowerCase(trim(csv[i].domain)), sDotCom)}

\* C12: rows without a domain or with a domain outside .com are dropped before
\* the selection and are no errors: every candidate of the selection has a
\* non-empty domain ending in .com, the selection has min(N, maxSelected)
\* candidates, N being the number of .com rows of the window, and the error
\* counter counts processed candidates only.
C12_DroppedRowsAreNoCandidatesNoErrors ==
  /\ \A i \in 1..Len(parsedData) :
       /\ parsedData[i].domain # <<>>
       /\ endsWith(toLowerCase(parsedData[i].domain), sDotCom)
  /\ JustSampled =>
       /\ Len(parsedData) = Min(Cardinality(WindowComRows), MAX_DOMAINS)
       /\ errors = 0
  /\ errors <= Cardinality(settled)

\* A full selection out of a window that also holds a dropped row.
C12_Witness ==
  /\ JustSampled
  /\ Len(parsedData) = MAX_DOMAINS
  /\ \E i \in 1..Len(Window) : i \notin WindowComRows
  /\ \E i \in 1..Len(parsedData) : parsedData[i].domain # toLowerCase(parsedData[i].domain)

\* C13 as stated: every candidate of the selection, and every domain key the
\* run writes to the store, is lower case, whatever the letter case of the
\* domain in the CSV row.
C13_DomainKeysAreLowerCase ==
  /\ \A i \in 1..Len(parsedData) :
       parsedData[i].domain = toLowerCase(parsedData[i].domain)
  /\ \A r \in store \ store0 : r.domain = toLowerCase(r.domain)

\* Row r carries the ten written fields of candidate data, under its domain.
CarriesCandidate(r, data) ==
  /\ r.domain = data.domain
  /\ \A f \in {"price", "estimation_price", "extension", "status", "score",
               "drop_time", "crawl_time", "tld", "length", "available"} :
       r[f] = data[f]

\* No row of the store is partly written: a row is as it was before the run,
\* or carries all ten fields of a candidate that has been looked up.
NoPartlyWrittenRow ==
  \A r \in store :
    r \in store0 \/ \E i \in settled : CarriesCandidate(r, parsedData[i])

\* A write that succeeds leaves the row of the candidate's domain carrying the
\* candidate's ten fields, and leaves one row for that domain.
UpsertWritesAllFields ==
  (pc \in {"AwaitUpdate", "AwaitInsert"} /\ updated' + inserted' > updated + inserted) =>
    /\ \E r \in store' : CarriesCandidate(r, parsedData[idx])
    /\ Cardinality(FindByDomain(store', parsedData[idx].domain)) = 1

\* C14: an upsert replaces all fields or inserts the full row: after a
\* successful upsert the stored row of the domain has price, estimation_price,
\* extension, status, score, drop_time, crawl_time, tld, length and available
\* equal to the candidate's, inserted or updated, and no state has a row with
\* only part of them written.
C14_UpsertWritesAllFieldsOrNone ==
  []NoPartlyWrittenRow /\ [][UpsertWritesAllFields]_vars

\* The row that was there has been updated and another one inserted.
C14_Witness ==
  /\ store0 # {}
  /\ updated = 1
  /\ inserted = 1
  /\ store0 \cap store = {}
  /\ Cardinality(store) = 2

\* C15 as stated: a comma followed by one or two digits is a decimal
\* separator, every other comma a thousands separator: "10,6" gives 10.6,
\* "1 234,56" gives 1234.56, "10,600" gives 10600 and "1,234.56" gives 1234.56.
C15_CommaDecimalOrThousands ==
  (call.fn = "parsePrice" /\ ret # NotReturned) =>
    /\ call.priceStr = <<"1","0",",","6">> => ret.value = [n |-> 106, d |-> 10]
    /\ call.priceStr = <<"1"," ","2","3","4",",","5","6">> =>
         ret.value = [n |-> 123456, d |-> 100]
    /\ call.priceStr = <<"1","0",",","6","0","0">> => ret.value = Num(10600)
    /\ call.priceStr = <<"1",",","2","3","4",".","5","6">> =>
         ret.value = [n |-> 123456, d |-> 100]

\* s is a decimal number from end to end: optional sign, digits, optional
\* "." and digits, with a digit somewhere.
IsDecimalNumber(s) ==
  LET body == IF s # <<>> /\ Head(s) \in {"-", "+"} THEN Tail(s) ELSE s
      dots == {i \in 1..Len(body) : body[i] = "."}
  IN /\ \A i \in 1..Len(body) : IsDigit(body[i]) \/ body[i] = "."
     /\ Cardinality(dots) <= 1
     /\ \E i \in 1..Len(body) : IsDigit(body[i])

\* s begins with a number: after an optional sign comes a digit, or a "."
\* and a digit.
HasLeadingNumber(s) ==
  LET body == IF s # <<>> /\ Head(s) \in {"-", "+"} THEN Tail(s) ELSE s
  IN \/ body # <<>> /\ IsDigit(body[1])
     \/ Len(body) >= 2 /\ body[1] = "." /\ IsDigit(body[2])

C17_ScoreBetween10And100 ==
  (call.fn \in {"calculateScore", "calculateEnhancedScore"} /\ ret # NotReturned) =>
    ret.value \in 10..100

\* The granularity of the magnitude band v lies in.
BandGranularity(v) ==
  IF v < 100 THEN 10
  ELSE IF v < 1000 THEN 50
  ELSE IF v < 10000 THEN 100
  ELSE 1000

\* C18: for every score in 10..100, length and top-level domain,
\* calculateEstimatedValue returns a value >= 0 that is a multiple of the
\* granularity of the band the returned value lies in.
C18_EstimateIsMultipleOfBandGranularity ==
  (call.fn = "calculateEstimatedValue" /\ ret # NotReturned) =>
    /\ ret.value >= 0
    /\ ret.value % BandGranularity(ret.value) = 0

\* Positions in `domains` of the lookups in flight.
LookupsInFlight == {i \in 1..Len(lookups) : lookups[i] = InFlight}

\* The chunk the lookup at position i of `domains` belongs to.
ChunkOf(i) ==
  CHOOSE c \in 1..Len(chunks) : \E k \in 1..Len(chunks[c]) : PositionOf(c, k) = i

\* C19: in batchCheckAvailability at most `concurrency` lookups are in flight
\* at any moment, and no lookup of a later chunk has been started while a
\* lookup of an earlier chunk is unsettled.
C19_AtMostConcurrencyInFlightChunkByChunk ==
  /\ Cardinality(LookupsInFlight) <= concurrency
  /\ \A i, j \in 1..Len(lookups) :
       (ChunkOf(i) < ChunkOf(j) /\ lookups[j] # NotStarted) =>
         lookups[i] \notin {NotStarted, InFlight}

\* A later chunk runs with as many lookups in flight as the concurrency
\* allows, more than one.
C19_Witness ==
  /\ batchPc = "AwaitChunk"
  /\ chunkNo >= 2
  /\ concurrency >= 2
  /\ Cardinality(LookupsInFlight) = concurrency

\* C20: batchCheckAvailability delays exactly once between two consecutive
\* chunks and never after the final chunk: m >= 1 chunks make m - 1 delays,
\* an empty batch none; during a delay every lookup of the chunks so far has
\* settled and no lookup of a later chunk has been started.
C20_OneDelayBetweenChunksNoneAfterLast ==
  /\ batchPc = "Returned" => delays = Max(Len(chunks) - 1, 0)
  /\ batchPc = "AwaitChunk" => delays = chunkNo - 1
  /\ batchPc = "AwaitDelay" =>
       /\ delays = chunkNo
       /\ chunkNo < Len(chunks)
       /\ \A i \in 1..Len(lookups) :
            IF ChunkOf(i) <= chunkNo
              THEN lookups[i] \notin {NotStarted, InFlight}
              ELSE lookups[i] = NotStarted
  /\ (batchPc = "Returned" /\ domains = <<>>) => delays = 0

\* A batch of three chunks has returned after two delays.
C20_Witness ==
  /\ batchPc = "Returned"
  /\ Len(chunks) = 3
  /\ delays = 2

\* C21: in every run that has entered Failed the source CSV has been released
\* exactly once: the file is deleted, by one call of the deletion, never by
\* none and never with a second attempt.
C21_FailedRunDeletesFileOnce ==
  pc = "Failed" => (unlinks = 1 /\ ~fileExists)

\* C22: a failure of the store while a candidate is being persisted (the
\* existence query, the update or the insert fails and is counted) moves the
\* run to Failed: processCSV throws instead of going on to a summary.
C22_StoreFailureWhilePersistingFailsRun ==
  [][(pc \in {"AwaitFind", "AwaitUpdate", "AwaitInsert"} /\ errors' = errors + 1)
       => pc' = "Failed"]_vars

\* Every concurrent run has got the answer to its write.
AllRunsSettled == runs # <<>> /\ \A r \in Runs : runs[r].pc = "Settled"

\* The row of the store carries the fields run r wrote.
CarriesFieldsOf(row, r) == \A f \in UpdateFields : row[f] = runs[r].data[f]

\* The position in writeLog of the last write the store accepted.
LastAccepted ==
  CHOOSE i \in 1..Len(writeLog) :
    /\ writeLog[i].accepted
    /\ \A j \in (i + 1)..Len(writeLog) : ~writeLog[j].accepted

\* C23 as stated: once concurrent runs have upserted the same domain, the
\* row stored for it carries the fields of the run whose write came last,
\* whether or not the domain was there before the runs.
C23_LastWriterWins ==
  AllRunsSettled =>
    \A row \in FindByDomain(store, RaceDomain) :
      CarriesFieldsOf(row, writeLog[Len(writeLog)].run)

\* C23 (amended): the store ends with one row for the domain, carrying the
\* fields of the last write it accepted.  Every update is accepted; an insert
\* is rejected, and counted as an error by its run, exactly when another
\* write has put the domain there since the run found it absent, so with the
\* domain there before the runs the run that wrote last wins, and with the
\* domain absent the first insert is the only one accepted.
C23_LastAcceptedWriteWins ==
  AllRunsSettled =>
    /\ Cardinality(FindByDomain(store, RaceDomain)) = 1
    /\ \A row \in FindByDomain(store, RaceDomain) :
         CarriesFieldsOf(row, writeLog[LastAccepted].run)
    /\ \A i \in 1..Len(writeLog) :
         /\ writeLog[i].kind = "update" => writeLog[i].accepted
         /\ ~writeLog[i].accepted =>
              /\ runs[writeLog[i].run].errors = 1
              /\ \E j \in 1..(i - 1) : writeLog[j].kind = "insert" /\ writeLog[j].accepted
         /\ (writeLog[i].kind = "insert" /\ writeLog[i].accepted) =>
              \A j \in 1..(i - 1) : ~writeLog[j].accepted
    /\ store0 # {} => \A i \in 1..Len(writeLog) : writeLog[i].accepted

\* The domain was absent, both runs went for the insert, and the store holds
\* the row of the first, not of the run that wrote last.
C23_Witness ==
  /\ AllRunsSettled
  /\ store0 = {}
  /\ \A i \in 1..Len(writeLog) : writeLog[i].kind = "insert"
  /\ ~writeLog[Len(writeLog)].accepted
  /\ \A row \in FindByDomain(store, RaceDomain) :
       /\ CarriesFieldsOf(row, writeLog[1].run)
       /\ ~CarriesFieldsOf(row, writeLog[Len(writeLog)].run)

\* C24: the upsert has a race window.  A run that has found the domain absent
\* does not look again: whatever the store holds by then, its next step is the
\* answer to its insert.
C24_InsertPathIsNotRechecked ==
  [][\A r \in Runs :
       (runs[r].pc = "AwaitInsert" /\ runs'[r] # runs[r]) =>
         /\ runs'[r].pc = "Settled"
         /\ writeLog' = Append(writeLog,
              [run |-> r, kind |-> "insert",
               accepted |-> (FindByDomain(store, runs[r].data.domain) = {})])
         /\ runs'[r].updated = runs[r].updated]_vars

\* A run found the domain absent, another run has inserted it since, and the
\* run's insert for the key that exists is under way.
C24_Witness ==
  \E r \in Runs :
    /\ runs # <<>>
    /\ runs[r].pc = "AwaitInsert"
    /\ FindByDomain(store, runs[r].data.domain) # {}
    /\ \E i \in 1..Len(writeLog) :
         writeLog[i].kind = "insert" /\ writeLog[i].accepted /\ writeLog[i].run # r

\* The enhanced score as the sum the scorer documents, from the fields of a
\* stored row: the shared steps, the price ladder, the availability bonus and
\* the status step, clamped and rounded.
EnhancedScoreOf(row) ==
  LET ladder == IF ~Truthy(row.price) THEN 0
                ELSE IF Greater(row.price, 1000) THEN 25
                ELSE IF Greater(row.price, 500) THEN 20
                ELSE IF Greater(row.price, 100) THEN 15
                ELSE IF Greater(row.price, 50) THEN 10
                ELSE 0
      bonus == IF row.available
                 THEN 15 + (IF row.status = sAvailable THEN 10
                            ELSE IF row.status = sAvailableSoon THEN 5 ELSE 0)
                 ELSE 0
  IN ClampRound10(SharedScore10(row.domain, row.length)
                    + 10 * (ladder + bonus + StatusScore(row.status)))

C26_EstimateUsesComBaseValue ==
  [][store' # store =>
       \E row \in store' :
         /\ row.domain = parsedData[idx].domain
         /\ row.estimation_price =
              calculateEstimatedValue(row.domain, row.score, row.length,
                                      <<"c","o","m">>)]_vars

\* C27: when the existence query for a candidate fails, the run counts one
\* error, leaves the store, the candidates and the other counters as they
\* are, sends no insert and no update for the candidate, and goes on to the
\* next candidate, or to the end of the run after the last one.
C27_FailedFindWritesNothing ==
  [][(pc = "AwaitFind" /\ errors' # errors) =>
       /\ errors' = errors + 1
       /\ store' = store
       /\ inserted' = inserted
       /\ updated' = updated
       /\ parsedData' = parsedData
       /\ pc' \notin {"AwaitUpdate", "AwaitInsert"}
       /\ IF idx < Len(parsedData)
            THEN pc' = "AwaitLookup" /\ idx' = idx + 1 /\ checked' = checked + 1
            ELSE pc' \in {"Done", "Failed"} /\ checked' = checked]_vars

\* After a first candidate that was counted as an error and not written, the
\* run is at the lookup of the second.
C27_Witness ==
  /\ pc = "AwaitLookup"
  /\ idx = 2
  /\ errors = 1
  /\ inserted = 0
  /\ updated = 0
  /\ store = store0

\* C28: a step of a run that changes the store changes or adds only a row
\* keyed by the domain of the candidate it is at, one of the run's sampled
\* candidates: every row of another domain stays as it is and no domain
\* leaves the store.
C28_RunWritesOnlyItsCandidatesRows ==
  [][store' # store =>
       /\ idx \in 1..Len(parsedData)
       /\ \A q \in store : q.domain # parsedData[idx].domain => q \in store'
       /\ \A q \in store' \ store : q.domain = parsedData[idx].domain
       /\ \A q \in store : \E q2 \in store' : q2.domain = q.domain]_vars

\* A run has ended that wrote a row for its candidate and had no candidate
\* for the domain of the row that was there before, which is unchanged.
C28_Witness ==
  /\ pc = "Done"
  /\ inserted >= 1
  /\ store0 = {oldRowAb}
  /\ oldRowAb \in store
  /\ \A i \in 1..Len(parsedData) : parsedData[i].domain # oldRowAb.domain
  /\ Cardinality(store) = 2

\* Positions of the sampled candidates with domain d.
OccurrencesOf(d) == {j \in 1..Len(parsedData) : parsedData[j].domain = d}

\* C29: at the end of a run without errors, a domain that was absent from the
\* store and occurs more than once among the sampled candidates has exactly
\* one row, with the values of its last occurrence in processing order; the
\* summary counts one insert for each domain that was absent and an update
\* for every other candidate.
C29_RepeatedDomainInsertedOnceThenUpdated ==
  (pc = "Done" /\ errors = 0) =>
    /\ \A i \in 1..Len(parsedData) :
         LET d == parsedData[i].domain
             last == CHOOSE j \in OccurrencesOf(d) : \A k \in OccurrencesOf(d) : k <= j
         IN (Cardinality(OccurrencesOf(d)) >= 2 /\ FindByDomain(store0, d) = {}) =>
              FindByDomain(store, d) = {parsedData[last]}
    /\ result.inserted =
         Cardinality({parsedData[i].domain : i \in 1..Len(parsedData)}
                       \ {r.domain : r \in store0})
    /\ result.updated = Len(parsedData) - result.inserted

\* A run over two candidates of one domain that was absent, whose lookups
\* answered differently, has ended: one insert, one update, and the row is the
\* second candidate.
C29_Witness ==
  /\ pc = "Done"
  /\ errors = 0
  /\ store0 = {}
  /\ Len(parsedData) = 2
  /\ parsedData[1].domain = parsedData[2].domain
  /\ parsedData[1] # parsedData[2]
  /\ result.inserted = 1
  /\ result.updated = 1
  /\ store = {parsedData[2]}

\* C30: when a lookup returns, the candidate's price becomes the price the
\* lookup observed if the lookup succeeded with a price that is not null and
\* not zero, and stays the price parsed from the CSV row otherwise; every
\* write to the store carries the candidate's price.
C30_LookupPriceElseCsvPrice ==
  [][/\ (pc = "AwaitLookup" /\ pc' = "AwaitFind") =>
          LET before == parsedData[idx]
              after == parsedData'[idx]
          IN \/ /\ idx \in failed'
                /\ after.price = before.price
             \/ /\ idx \notin failed'
                /\ \E api \in ApiResponses :
                     /\ after.available = api.available
                     /\ after.price = IF api.price # 0
                                        THEN Norm([n |-> api.price, d |-> 100])
                                        ELSE before.price
     /\ store' # store =>
          \E row \in store' :
            /\ row.domain = parsedData[idx].domain
            /\ row.price = parsedData[idx].price]_vars

\* A row has been written with the price of the lookup, which differs from
\* the price of every CSV row.
C30_Witness ==
  /\ pc \in {"AwaitDelay", "AwaitLookup", "Done"}
  /\ idx \in settled \ failed
  /\ \E row \in store :
       /\ row.domain = parsedData[idx].domain
       /\ row.price = Norm([n |-> 1299, d |-> 100])
       /\ \A i \in 1..Len(csv) : parsePrice(csv[i].price) # row.price

====
